---- MODULE Spec2Model ----
(***************************************************************************)
(* utils_timeseries.py: load_timeseries and the series-preparation         *)
(* functions (ensure_datetime_index, fill_missing, difference_series,      *)
(* boxcox_transform), modelled as operators over a small value model of a  *)
(* pandas Series, and applied by the actions of four specifications:       *)
(*   Spec      load a header-less file, then fill the loaded series        *)
(*   SpecLoad  load a file that has a header line                          *)
(*   SpecCols  load with every kind of column selector and header option   *)
(*   SpecPrep  the preparation functions on a series the caller built      *)
(***************************************************************************)
EXTENDS Integers, Sequences, FiniteSets, TLC

VARIABLES
    file,    \* the CSV file at `filepath`
    serie,   \* the Series object the caller holds (and passes in)
    call,    \* the last call: its function name and arguments
    before,  \* the caller's Series as it was when the last call began
    raised,  \* the exception the last call raised (NoError when it returned)
    result   \* what the last call returned (returned = FALSE when it raised)

vars == <<file, serie, call, before, raised, result>>

(***************************************************************************)
(* Bounds of the model.                                                    *)
(***************************************************************************)
MaxRows == 3    \* data rows of a CSV file
MaxLen == 3     \* entries of a series built by the caller
MaxOrder == 2   \* largest differencing order tried

(***************************************************************************)
(* Numbers.  A float is an exact rational [n, d] with d > 0 in lowest      *)
(* terms; NaN (pandas' missing marker) is the one value with d = 0.        *)
(***************************************************************************)
NaN == [n |-> 0, d |-> 0]

Num(i) == [n |-> i, d |-> 1]

IsNaN(x) == x.d = 0

Abs(i) == IF i < 0 THEN -i ELSE i

RECURSIVE Gcd(_, _)
Gcd(a, b) == IF b = 0 THEN a ELSE Gcd(b, a % b)

\* The rational n/d (d # 0) in lowest terms with a positive denominator.
Frac(n, d) ==
    LET g == Gcd(Abs(n), Abs(d))
        s == IF d < 0 THEN -1 ELSE 1
    IN  [n |-> s * (n \div g), d |-> s * (d \div g)]

\* Float arithmetic: NaN is absorbing.
Add(x, y) == IF IsNaN(x) \/ IsNaN(y) THEN NaN ELSE Frac(x.n * y.d + y.n * x.d, x.d * y.d)

Sub(x, y) == IF IsNaN(x) \/ IsNaN(y) THEN NaN ELSE Frac(x.n * y.d - y.n * x.d, x.d * y.d)

Mul(x, y) == IF IsNaN(x) \/ IsNaN(y) THEN NaN ELSE Frac(x.n * y.n, x.d * y.d)

DivInt(x, k) == IF IsNaN(x) THEN NaN ELSE Frac(x.n, x.d * k)

\* x < y on floats; any comparison with NaN is False.
Lt(x, y) == ~IsNaN(x) /\ ~IsNaN(y) /\ x.n * y.d < y.n * x.d

\* x <= 0 on floats (False for NaN).
LeZero(x) == ~IsNaN(x) /\ x.n <= 0

RECURSIVE Pow(_, _)
Pow(x, k) == IF k = 0 THEN Num(1) ELSE Mul(x, Pow(x, k - 1))

(***************************************************************************)
(* Index labels.  A label is a timestamp (whole days), NaT, or a string    *)
(* (an index that is not datetime-typed); a string label carries the day   *)
(* pandas.to_datetime parses it to, 0 when it is not a date.               *)
(***************************************************************************)
NaT == [k |-> "NaT", day |-> 0]

Ts(d) == [k |-> "ts", day |-> d]

Str(d) == [k |-> "str", day |-> d]

IsNaT(l) == l.k = "NaT"

\* l1 sorts strictly before l2 (na_position="last": NaT after every timestamp).
LabelLt(l1, l2) == ~IsNaT(l1) /\ (IsNaT(l2) \/ l1.day < l2.day)

(***************************************************************************)
(* Series: parallel sequences of labels and values, a name ("" is None)    *)
(* and the name of the index.                                              *)
(***************************************************************************)
MkSeries(idx, vals, nm, inm) == [index |-> idx, values |-> vals, name |-> nm, index_name |-> inm]

NoSeries == MkSeries(<<>>, <<>>, "", "")

Size(s) == Len(s.values)

\* The subsequence of seq at the positions (ascending) that satisfy keep.
RECURSIVE SelectPos(_, _, _)
SelectPos(seq, keep, i) ==
    IF i > Len(seq) THEN <<>>
    ELSE (IF keep[i] THEN <<seq[i]>> ELSE <<>>) \o SelectPos(seq, keep, i + 1)

\* Series.dropna(): the entries whose VALUE is not missing, in order.
DropNa(s) ==
    LET keep == [i \in 1..Size(s) |-> ~IsNaN(s.values[i])]
    IN  [s EXCEPT !.index = SelectPos(s.index, keep, 1),
                  !.values = SelectPos(s.values, keep, 1)]

(***************************************************************************)
(* Exceptions.  kind classifies the message; a KeyError of _resolve_col    *)
(* carries the selector it could not resolve and the column list it        *)
(* prints.                                                                 *)
(***************************************************************************)
NoSel == [kind |-> "none", pos |-> 0, name |-> ""]

Error(type, kind) == [type |-> type, kind |-> kind, col |-> NoSel, columns |-> <<>>]

NoError == Error("none", "none")

Raise(e, obj) == [err |-> e, returned |-> FALSE, ret |-> NoSeries, lam |-> NaN, after |-> obj]

Return(s, lam, obj) == [err |-> NoError, returned |-> TRUE, ret |-> s, lam |-> lam, after |-> obj]

(***************************************************************************)
(* pandas operations the functions call.                                   *)
(***************************************************************************)
\* Index.is_monotonic_increasing: non-decreasing, and False when a NaT is present.
IsMonotonic(idx) ==
    /\ \A i \in 1..Len(idx) : ~IsNaT(idx[i])
    /\ \A i \in 1..(Len(idx) - 1) : idx[i].day <= idx[i + 1].day

Orderings(n) == {p \in [1..n -> 1..n] : \A i, j \in 1..n : p[i] = p[j] => i = j}

\* Series.sort_index(): the input order when the index is already monotonic;
\* otherwise the timestamps in non-decreasing order (quicksort: entries with
\* equal timestamps in any order) followed by the NaT entries in input order.
SortOrders(idx) ==
    IF IsMonotonic(idx) THEN {[i \in 1..Len(idx) |-> i]}
    ELSE {p \in Orderings(Len(idx)) :
            \A i, j \in 1..Len(idx) :
                i < j => /\ ~LabelLt(idx[p[j]], idx[p[i]])
                         /\ (IsNaT(idx[p[i]]) /\ IsNaT(idx[p[j]]) => p[i] < p[j])}

Take(s, p) ==
    [s EXCEPT !.index = [i \in 1..Size(s) |-> s.index[p[i]]],
              !.values = [i \in 1..Size(s) |-> s.values[p[i]]]]

SortIndex(s) == {Take(s, p) : p \in SortOrders(s.index)}

HasDuplicates(idx) == \E i, j \in 1..Len(idx) : i < j /\ idx[i] = idx[j]

Days(idx) == {idx[i].day : i \in {j \in 1..Len(idx) : ~IsNaT(idx[j])}}

SetMin(S) == CHOOSE m \in S : \A x \in S : m <= x

SetMax(S) == CHOOSE m \in S : \A x \in S : x <= m

\* Series.asfreq("D"): an empty series is copied; otherwise the series is
\* reindexed on every day from index.min() to index.max(), a day absent from
\* the index getting NaN.  date_range refuses a NaT start, and reindex refuses
\* an index with duplicate labels.
AsFreq(s, obj) ==
    IF Size(s) = 0 THEN Return(s, NaN, obj)
    ELSE IF Days(s.index) = {} THEN Raise(Error("ValueError", "date_range: start is NaT"), obj)
    ELSE IF HasDuplicates(s.index)
        THEN Raise(Error("ValueError", "cannot reindex on an axis with duplicate labels"), obj)
    ELSE LET lo == SetMin(Days(s.index))
             hi == SetMax(Days(s.index))
             at(d) == IF \E i \in 1..Size(s) : s.index[i] = Ts(d)
                      THEN s.values[CHOOSE i \in 1..Size(s) : s.index[i] = Ts(d)]
                      ELSE NaN
         IN  Return([s EXCEPT !.index = [i \in 1..(hi - lo + 1) |-> Ts(lo + i - 1)],
                              !.values = [i \in 1..(hi - lo + 1) |-> at(lo + i - 1)]],
                    NaN, obj)

\* Series.ffill(): carry the last value seen forward over missing entries.
RECURSIVE FfillFrom(_, _, _)
FfillFrom(vals, i, last) ==
    IF i > Len(vals) THEN <<>>
    ELSE LET v == IF IsNaN(vals[i]) THEN last ELSE vals[i]
         IN  <<v>> \o FfillFrom(vals, i + 1, v)

Ffill(s) == [s EXCEPT !.values = FfillFrom(s.values, 1, NaN)]

\* Series.bfill(): carry the next value seen backward over missing entries.
RECURSIVE BfillFrom(_, _, _)
BfillFrom(vals, i, next) ==
    IF i < 1 THEN <<>>
    ELSE LET v == IF IsNaN(vals[i]) THEN next ELSE vals[i]
         IN  BfillFrom(vals, i - 1, v) \o <<v>>

Bfill(s) == [s EXCEPT !.values = BfillFrom(s.values, Len(s.values), NaN)]

\* Series.fillna(x): every missing entry becomes x.
FillNa(s, x) == [s EXCEPT !.values = [i \in 1..Size(s) |-> IF IsNaN(s.values[i]) THEN x ELSE s.values[i]]]

RECURSIVE Sum(_, _)
Sum(vals, i) == IF i > Len(vals) THEN Num(0) ELSE Add(vals[i], Sum(vals, i + 1))

\* Series.mean(): the mean of the non-missing values, NaN when there is none.
Mean(s) ==
    LET v == DropNa(s).values
    IN  IF Len(v) = 0 THEN NaN ELSE DivInt(Sum(v, 1), Len(v))

RECURSIVE InsertSorted(_, _)
InsertSorted(x, sorted) ==
    IF sorted = <<>> THEN <<x>>
    ELSE IF Lt(x, Head(sorted)) THEN <<x>> \o sorted
    ELSE <<Head(sorted)>> \o InsertSorted(x, Tail(sorted))

RECURSIVE SortValues(_)
SortValues(vals) == IF vals = <<>> THEN <<>> ELSE InsertSorted(Head(vals), SortValues(Tail(vals)))

\* Series.median(): the middle non-missing value, or the mean of the two middle ones.
Median(s) ==
    LET v == SortValues(DropNa(s).values)
        m == Len(v)
    IN  IF m = 0 THEN NaN
        ELSE IF m % 2 = 1 THEN v[(m + 1) \div 2]
        ELSE DivInt(Add(v[m \div 2], v[m \div 2 + 1]), 2)

\* Series.diff(): value[i] - value[i-1], the first entry missing.
Diff(s) ==
    [s EXCEPT !.values = [i \in 1..Size(s) |-> IF i = 1 THEN NaN ELSE Sub(s.values[i], s.values[i - 1])]]

(***************************************************************************)
(* The module's global names: what lines 11-16 import.  A function that    *)
(* reads a global name that is not bound raises NameError at that point.   *)
(***************************************************************************)
\* Mutant: the module also imports numpy as np.
ModuleGlobalsWithNumpy == {"annotations", "Path", "Iterable", "Optional", "Tuple", "Union", "pd", "np"}

ModuleGlobals == {"annotations", "Path", "Iterable", "Optional", "Tuple", "Union", "pd"}

(***************************************************************************)
(* The CSV file: whether the path exists, whether its first line is a      *)
(* header line, and its lines, each a pair of cell texts.                  *)
(***************************************************************************)
DateTexts == {"2023-01-01", "2023-01-02", "2023-01-03"}

NumTexts == {"100", "120"}

\* pd.to_datetime(..., errors="coerce") on one cell.
ToDatetime(text) ==
    IF text = "2023-01-01" THEN Ts(1)
    ELSE IF text = "2023-01-02" THEN Ts(2)
    ELSE IF text = "2023-01-03" THEN Ts(3)
    ELSE NaT

\* pd.to_numeric(..., errors="coerce") on one cell.
ToNumeric(text) ==
    IF text = "100" THEN Num(100)
    ELSE IF text = "120" THEN Num(120)
    ELSE NaN

\* pd.read_csv(filepath): the first line names the columns.
ReadCsvHeader(f) == [columns |-> f.lines[1], rows |-> Tail(f.lines)]

\* pd.read_csv(filepath, header=None) and the rename of columns 0 and 1.
ReadCsvNoHeader(f, column_names) == [columns |-> <<column_names[1], column_names[2]>>, rows |-> f.lines]

(***************************************************************************)
(* load_timeseries                                                         *)
(***************************************************************************)
IntSel(i) == [kind |-> "int", pos |-> i, name |-> ""]

StrSel(n) == [kind |-> "str", pos |-> 0, name |-> n]

ColumnError(kind, col, columns) == [type |-> "KeyError", kind |-> kind, col |-> col, columns |-> columns]

\* Is the selector one _resolve_col resolves?  An int indexes df.columns the
\* way Python indexes a list (negative positions count from the end).
Resolves(col, columns) ==
    IF col.kind = "int" THEN -Len(columns) <= col.pos /\ col.pos < Len(columns)
    ELSE \E i \in 1..Len(columns) : columns[i] = col.name

\* Mutant: the KeyError message leaves out the column list.
_resolve_col_error_without_columns(col, columns) ==
    IF col.kind = "int" THEN ColumnError("position does not exist", col, <<>>)
    ELSE ColumnError("name does not exist", col, <<>>)

_resolve_col_error(col, columns) ==
    IF col.kind = "int" THEN ColumnError("position does not exist", col, columns)
    ELSE ColumnError("name does not exist", col, columns)

\* The position (1-based) of the column _resolve_col returns.
_resolve_col(col, columns) ==
    IF col.kind = "int"
    THEN (IF col.pos < 0 THEN col.pos + Len(columns) ELSE col.pos) + 1
    ELSE CHOOSE i \in 1..Len(columns) : columns[i] = col.name

\* Lines 77-88: the converted date column as index of the converted value column.
MakeSeries(df, d, v, index_name) ==
    MkSeries([i \in 1..Len(df.rows) |-> ToDatetime(df.rows[i][d])],
             [i \in 1..Len(df.rows) |-> ToNumeric(df.rows[i][v])],
             df.columns[v], index_name)

\* Lines 90-91.
DropStep(ts, dropna) == IF dropna THEN DropNa(ts) ELSE ts

\* Mutant: sort_index is ignored.
SortStepSkipped(ts, sort_index) == {ts}

\* Lines 93-94.
SortStep(ts, sort_index) == IF sort_index THEN SortIndex(ts) ELSE {ts}

\* Lines 96-100.
FreqStep(ts, freq) == IF freq # "" THEN AsFreq(ts, NoSeries) ELSE Return(ts, NaN, NoSeries)

\* Lines 77-100; df.set_index(c)[c] finds no column c left when both selectors
\* name the same column.
BuildSeries(df, d, v, a) ==
    IF d = v THEN {Raise(Error("KeyError", "set_index consumed the value column"), NoSeries)}
    ELSE {FreqStep(s, a.freq) : s \in SortStep(DropStep(MakeSeries(df, d, v, a.index_name), a.dropna), a.sort_index)}

\* Lines 56-72: the date column is resolved first, then the value column.
ResolveAndBuild(df, a) ==
    IF ~Resolves(a.date_col, df.columns)
        THEN {Raise(_resolve_col_error(a.date_col, df.columns), NoSeries)}
    ELSE IF ~Resolves(a.value_col, df.columns)
        THEN {Raise(_resolve_col_error(a.value_col, df.columns), NoSeries)}
    ELSE BuildSeries(df, _resolve_col(a.date_col, df.columns), _resolve_col(a.value_col, df.columns), a)

\* Mutant: more than two names are accepted.
ColumnNamesAtLeastTwo(column_names) == Len(column_names) >= 2

\* Line 49: column_names is given and has two names (() and None are both falsy).
ColumnNamesOk(column_names) == Len(column_names) = 2

\* The outcomes of load_timeseries(f, **a) (more than one only where
\* sort_index may order equal timestamps either way).
load_timeseries(f, a) ==
    IF ~f.exists THEN {Raise(Error("FileNotFoundError", "file not found"), NoSeries)}
    ELSE IF a.has_header
        THEN (IF Len(f.lines) = 0 THEN {Raise(Error("EmptyDataError", "no columns to parse"), NoSeries)}
              ELSE ResolveAndBuild(ReadCsvHeader(f), a))
    ELSE IF ~ColumnNamesOk(a.column_names)
        THEN {Raise(Error("ValueError", "column_names with 2 names required"), NoSeries)}
    ELSE IF Len(f.lines) = 0 THEN {Raise(Error("EmptyDataError", "no columns to parse"), NoSeries)}
    ELSE ResolveAndBuild(ReadCsvNoHeader(f, a.column_names), a)

(***************************************************************************)
(* ensure_datetime_index.  serie is the caller's object: line 132 assigns  *)
(* its index in place, and line 137 names the index of whatever `serie`    *)
(* then refers to (the caller's object unless sort_index made a new one).  *)
(***************************************************************************)
IsDatetimeIndex(idx) == \A i \in 1..Len(idx) : idx[i].k # "str"

\* pd.to_datetime(index): raises on a label that is not a date.
IndexParses(idx) == \A i \in 1..Len(idx) : idx[i].k = "str" => idx[i].day # 0

IndexToDatetime(idx) == [i \in 1..Len(idx) |-> IF idx[i].k = "str" THEN Ts(idx[i].day) ELSE idx[i]]

ensure_datetime_index(s, freq, sort_index, index_name) ==
    IF "np" \notin ModuleGlobals THEN {Raise(Error("NameError", "name 'np' is not defined"), s)}
    ELSE IF ~IsDatetimeIndex(s.index) /\ ~IndexParses(s.index)
        THEN {Raise(Error("ValueError", "index label is not a date"), s)}
    ELSE LET obj == IF IsDatetimeIndex(s.index) THEN s ELSE [s EXCEPT !.index = IndexToDatetime(s.index)]
             locals == IF sort_index THEN SortIndex(obj) ELSE {obj}
             objAfter == IF sort_index THEN obj ELSE [obj EXCEPT !.index_name = index_name]
         IN  {IF freq # "" THEN AsFreq([l EXCEPT !.index_name = index_name], objAfter)
                           ELSE Return([l EXCEPT !.index_name = index_name], NaN, objAfter) : l \in locals}

(***************************************************************************)
(* fill_missing.  has_value is FALSE when value is None.                   *)
(***************************************************************************)
\* Mutant: method="value" without a value falls back to filling with zero.
fill_missing_value_defaults_to_zero(s, method, has_value, value) ==
    IF method = "ffill" THEN Return(Ffill(s), NaN, s)
    ELSE IF method = "bfill" THEN Return(Bfill(s), NaN, s)
    ELSE IF method = "mean" THEN Return(FillNa(s, Mean(s)), NaN, s)
    ELSE IF method = "median" THEN Return(FillNa(s, Median(s)), NaN, s)
    ELSE IF method = "zero" THEN Return(FillNa(s, Num(0)), NaN, s)
    ELSE IF method = "value" THEN Return(FillNa(s, IF has_value THEN value ELSE Num(0)), NaN, s)
    ELSE Raise(Error("ValueError", "unsupported fill method"), s)

\* Mutant: "ffill" fills backward.
fill_missing_ffill_fills_backward(s, method, has_value, value) ==
    IF method = "ffill" THEN Return(Bfill(s), NaN, s)
    ELSE IF method = "bfill" THEN Return(Bfill(s), NaN, s)
    ELSE IF method = "mean" THEN Return(FillNa(s, Mean(s)), NaN, s)
    ELSE IF method = "median" THEN Return(FillNa(s, Median(s)), NaN, s)
    ELSE IF method = "zero" THEN Return(FillNa(s, Num(0)), NaN, s)
    ELSE IF method = "value"
        THEN (IF ~has_value THEN Raise(Error("ValueError", "method='value' needs 'value'"), s)
              ELSE Return(FillNa(s, value), NaN, s))
    ELSE Raise(Error("ValueError", "unsupported fill method"), s)

fill_missing(s, method, has_value, value) ==
    IF method = "ffill" THEN Return(Ffill(s), NaN, s)
    ELSE IF method = "bfill" THEN Return(Bfill(s), NaN, s)
    ELSE IF method = "mean" THEN Return(FillNa(s, Mean(s)), NaN, s)
    ELSE IF method = "median" THEN Return(FillNa(s, Median(s)), NaN, s)
    ELSE IF method = "zero" THEN Return(FillNa(s, Num(0)), NaN, s)
    ELSE IF method = "value"
        THEN (IF ~has_value THEN Raise(Error("ValueError", "method='value' needs 'value'"), s)
              ELSE Return(FillNa(s, value), NaN, s))
    ELSE Raise(Error("ValueError", "unsupported fill method"), s)

(***************************************************************************)
(* difference_series.  order_is_int is FALSE for an order such as 1.0,     *)
(* which range() refuses after the copy was made.                          *)
(***************************************************************************)
RECURSIVE DiffTimes(_, _)
DiffTimes(s, k) == IF k <= 0 THEN s ELSE DiffTimes(Diff(s), k - 1)

difference_series(s, order, order_is_int, dropna) ==
    IF ~order_is_int THEN Raise(Error("TypeError", "'float' object cannot be interpreted as an integer"), s)
    ELSE LET diff == DiffTimes(s, order)
         IN  Return(IF dropna THEN DropNa(diff) ELSE diff, NaN, s)

(***************************************************************************)
(* boxcox_transform.  lmbda is 0 when None, else a positive integer        *)
(* exponent; fitted is the lambda scipy's likelihood fit would return.     *)
(***************************************************************************)
\* scipy.stats.boxcox(x, lmbda) for lmbda # 0: (x^lmbda - 1) / lmbda.
BoxcoxValue(x, lmbda) == DivInt(Sub(Pow(x, lmbda), Num(1)), lmbda)

BoxcoxName(nm) ==
    IF nm = "" THEN "serie_boxcox"
    ELSE IF nm = "usuarios" THEN "usuarios_boxcox"
    ELSE "users_boxcox"

\* Mutant: zero passes the check (serie_clean < 0).
AnyNegative(serie_clean) == \E i \in 1..Size(serie_clean) : Lt(serie_clean.values[i], Num(0))

\* Line 318: (serie_clean <= 0).any()
AnyNonPositive(serie_clean) == \E i \in 1..Size(serie_clean) : LeZero(serie_clean.values[i])

boxcox_transform(s, lmbda, fitted) ==
    LET serie_clean == DropNa(s)
        lmbda_to_use == IF lmbda = 0 THEN fitted ELSE lmbda
    IN  IF AnyNonPositive(serie_clean)
            THEN Raise(Error("ValueError", "Box-Cox requires all values > 0"), s)
        ELSE IF "stats" \notin ModuleGlobals
            THEN Raise(Error("NameError", "name 'stats' is not defined"), s)
        ELSE Return(MkSeries(serie_clean.index,
                             [i \in 1..Size(serie_clean) |-> BoxcoxValue(serie_clean.values[i], lmbda_to_use)],
                             BoxcoxName(s.name), serie_clean.index_name),
                    Num(lmbda_to_use), s)

(***************************************************************************)
(* Inputs.                                                                 *)
(***************************************************************************)
HeaderLine == <<"data", "usuarios">>

DataLines == (DateTexts \cup {"abc"}) \X (NumTexts \cup {""})

LinesUpTo(n) == UNION {[1..k -> DataLines] : k \in 0..n}

CsvFile(hdr, rows) == [exists |-> TRUE, hdr |-> hdr, lines |-> IF hdr THEN <<HeaderLine>> \o rows ELSE rows]

MissingFile == [exists |-> FALSE, hdr |-> FALSE, lines |-> <<>>]

FilesWithHeader == {CsvFile(TRUE, rows) : rows \in LinesUpTo(MaxRows)}

FilesNoHeader == {CsvFile(FALSE, rows) : rows \in LinesUpTo(MaxRows)}

FilesSmall == {MissingFile} \cup {CsvFile(hdr, rows) : hdr \in BOOLEAN, rows \in LinesUpTo(1)}

LoadArgs(date_col, value_col, has_header, column_names, freq, dropna, sort_index) ==
    [date_col |-> date_col, value_col |-> value_col, has_header |-> has_header,
     column_names |-> column_names, freq |-> freq, dropna |-> dropna,
     sort_index |-> sort_index, index_name |-> "data"]

\* Calls on a file with a header line, the columns given by position or by name.
ArgsWithHeader ==
    {LoadArgs(c[1], c[2], TRUE, <<>>, freq, dropna, sort_index) :
        c \in {<<IntSel(0), IntSel(1)>>, <<StrSel("data"), StrSel("usuarios")>>},
        freq \in {"", "D"}, dropna \in BOOLEAN, sort_index \in BOOLEAN}

\* Calls on a header-less file with column_names=("date", "users").
ArgsNoHeader ==
    {LoadArgs(IntSel(0), IntSel(1), FALSE, <<"date", "users">>, "", dropna, sort_index) :
        dropna \in BOOLEAN, sort_index \in BOOLEAN}

DateSelectors == {IntSel(0), IntSel(-2), IntSel(2), IntSel(-3), StrSel("data"), StrSel("date"), StrSel("dia")}

ValueSelectors ==
    {IntSel(1), IntSel(-1), IntSel(0), IntSel(5), StrSel("usuarios"), StrSel("users"), StrSel("valor")}

ColumnNameChoices == {<<>>, <<"date">>, <<"date", "users">>, <<"date", "users", "extra">>}

\* Calls with every selector and header option; has_header=True only on a file
\* whose first line is a header line.
ArgsCols(f) ==
    {LoadArgs(d, v, h, n, "", TRUE, TRUE) :
        d \in DateSelectors, v \in ValueSelectors, h \in {x \in BOOLEAN : x => f.hdr}, n \in ColumnNameChoices}

PrepValues == {NaN, Num(-1), Num(0), Num(2), Num(5)}

\* Indexes a caller may build: sorted timestamps, reversed or repeated
\* timestamps, date strings, and strings the first of which is not a date.
IndexKinds == {"ts", "rev", "dup", "str", "bad"}

CallerIndex(kind, n) ==
    [i \in 1..n |-> IF kind = "ts" THEN Ts(i)
                    ELSE IF kind = "rev" THEN Ts(n + 1 - i)
                    ELSE IF kind = "dup" THEN Ts(1)
                    ELSE IF kind = "str" THEN Str(i)
                    ELSE IF i = 1 THEN Str(0) ELSE Str(i)]

CallerSeries ==
    {MkSeries(CallerIndex(kind, Len(vals)), vals, nm, "data") :
        kind \in IndexKinds, vals \in UNION {[1..k -> PrepValues] : k \in 0..MaxLen}, nm \in {"", "usuarios"}}

Methods == {"ffill", "bfill", "mean", "median", "zero", "value", "linear"}

NoCall == [op |-> "none", a |-> [none |-> TRUE]]

(***************************************************************************)
(* Actions: one call of one function.  The functions keep nothing between  *)
(* calls, so a behaviour makes one call (Spec: one load, then one          *)
(* preparation call on the loaded series).                                 *)
(***************************************************************************)
Record(op, a, out) ==
    /\ call' = [op |-> op, a |-> a]
    /\ before' = serie
    /\ raised' = out.err
    /\ result' = [returned |-> out.returned, ret |-> out.ret, lam |-> out.lam]
    /\ UNCHANGED file

\* series = load_timeseries(filepath, ...): the caller keeps what is returned.
Load(argsets) ==
    /\ call.op = "none"
    /\ \E a \in argsets : \E out \in load_timeseries(file, a) :
        /\ Record("load_timeseries", a, out)
        /\ serie' = IF out.returned THEN out.ret ELSE serie

Ready(afterLoad) == IF afterLoad THEN call.op = "load_timeseries" /\ result.returned ELSE call.op = "none"

EnsureDatetimeIndex(afterLoad) ==
    /\ Ready(afterLoad)
    /\ \E freq \in {"", "D"}, sort_index \in BOOLEAN :
        \E out \in ensure_datetime_index(serie, freq, sort_index, "date") :
            /\ Record("ensure_datetime_index", [freq |-> freq, sort_index |-> sort_index, index_name |-> "date"], out)
            /\ serie' = out.after

FillMissing(afterLoad) ==
    /\ Ready(afterLoad)
    /\ \E method \in Methods, has_value \in BOOLEAN :
        /\ has_value => method = "value"
        /\ LET out == fill_missing(serie, method, has_value, Num(7))
           IN  /\ Record("fill_missing", [method |-> method, has_value |-> has_value, value |-> Num(7)], out)
               /\ serie' = out.after

DifferenceSeries(afterLoad) ==
    /\ Ready(afterLoad)
    /\ \E order \in (-1)..MaxOrder, order_is_int \in BOOLEAN, dropna \in BOOLEAN :
        LET out == difference_series(serie, order, order_is_int, dropna)
        IN  /\ Record("difference_series", [order |-> order, order_is_int |-> order_is_int, dropna |-> dropna], out)
            /\ serie' = out.after

BoxcoxTransform(afterLoad) ==
    /\ Ready(afterLoad)
    /\ \E lmbda \in 0..2, fitted \in 1..2 :
        /\ lmbda # 0 => fitted = 1
        /\ LET out == boxcox_transform(serie, lmbda, fitted)
           IN  /\ Record("boxcox_transform", [lmbda |-> lmbda], out)
               /\ serie' = out.after

InitWith(files, series) ==
    /\ file \in files
    /\ serie \in series
    /\ call = NoCall
    /\ before = NoSeries
    /\ raised = NoError
    /\ result = [returned |-> FALSE, ret |-> NoSeries, lam |-> NaN]

(***************************************************************************)
(* Spec: a header-less file is loaded, then the loaded series is filled.   *)
(***************************************************************************)
Init == InitWith(FilesNoHeader, {NoSeries})

Next ==
    \/ Load(ArgsNoHeader)
    \/ FillMissing(TRUE)

Spec == Init /\ [][Next]_vars

(***************************************************************************)
(* SpecLoad: a file with a header line is loaded.                          *)
(***************************************************************************)
InitLoad == InitWith(FilesWithHeader, {NoSeries})

NextLoad == Load(ArgsWithHeader)

SpecLoad == InitLoad /\ [][NextLoad]_vars

(***************************************************************************)
(* SpecCols: load_timeseries with every selector and header option, on     *)
(* small files and on a path that does not exist.                          *)
(***************************************************************************)
InitCols == InitWith(FilesSmall, {NoSeries})

NextCols == Load(ArgsCols(file))

SpecCols == InitCols /\ [][NextCols]_vars

(***************************************************************************)
(* SpecPrep: the preparation functions on a series the caller built.       *)
(***************************************************************************)
InitPrep == InitWith({MissingFile}, CallerSeries)

NextPrep ==
    \/ EnsureDatetimeIndex(FALSE)
    \/ FillMissing(FALSE)
    \/ DifferenceSeries(FALSE)
    \/ BoxcoxTransform(FALSE)

SpecPrep == InitPrep /\ [][NextPrep]_vars

(***************************************************************************)
(* Properties of load_timeseries.                                          *)
(***************************************************************************)
Loaded == call.op = "load_timeseries" /\ result.returned

\* The data rows of the file under the call's has_header.
DataRows == IF call.a.has_header THEN Tail(file.lines) ELSE file.lines

\* Rows whose date cell parses as a date and whose value cell parses as a number
\* (SpecLoad and Spec select column 0 for the date and column 1 for the value).
FullyParseableRows ==
    {i \in 1..Len(DataRows) : ~IsNaT(ToDatetime(DataRows[i][1])) /\ ~IsNaN(ToNumeric(DataRows[i][2]))}

\* C1: with dropna=True and freq=None the loaded series has one entry per row
\* whose date and value both parse, and none for a row whose date does not parse.
C1_LengthCountsParseableRows ==
    (Loaded /\ call.a.dropna /\ call.a.freq = "")
        => /\ Size(result.ret) = Cardinality(FullyParseableRows)
           /\ \A i \in 1..Size(result.ret) : ~IsNaT(result.ret.index[i])

C4_AlwaysMissingConfiguration ==
    (call.op = "load_timeseries" /\ ~call.a.has_header /\ Len(call.a.column_names) # 2)
        => ~result.returned /\ raised.type = "ValueError" /\ raised.kind = "column_names with 2 names required"

\* C4 amended: on a path that exists, has_header=False without exactly two
\* column_names fails with the missing-configuration ValueError; on a path that
\* does not exist the call fails with FileNotFoundError instead.
C4_MissingConfigurationOnExistingFile ==
    (call.op = "load_timeseries" /\ ~call.a.has_header /\ Len(call.a.column_names) # 2)
        => /\ ~result.returned
           /\ file.exists => raised.type = "ValueError" /\ raised.kind = "column_names with 2 names required"
           /\ ~file.exists => raised.type = "FileNotFoundError"

\* C4's case: an existing file, has_header=False, three column names.
C4_Witness ==
    /\ call.op = "load_timeseries" /\ file.exists /\ ~call.a.has_header
    /\ Len(call.a.column_names) = 3
    /\ raised.type = "ValueError"

\* The columns of the table the call loaded.
ActualColumns == IF call.a.has_header THEN file.lines[1] ELSE call.a.column_names

TableLoaded ==
    /\ call.op = "load_timeseries" /\ file.exists /\ Len(file.lines) > 0
    /\ call.a.has_header \/ Len(call.a.column_names) = 2

\* A position outside the table, or a name that is no column of it.
OutsideTable(col) ==
    IF col.kind = "int" THEN col.pos \notin (-Len(ActualColumns))..(Len(ActualColumns) - 1)
    ELSE col.name \notin {ActualColumns[i] : i \in 1..Len(ActualColumns)}

FailsColumnNotFound(col) ==
    /\ ~result.returned
    /\ raised.type = "KeyError"
    /\ raised.col = col
    /\ raised.columns = ActualColumns

\* C5: a date_col or value_col outside the loaded table's columns makes the call
\* fail with a KeyError that lists the table's columns; the date column is
\* resolved first, so the error names date_col when both are outside.
C5_ColumnNotFound ==
    TableLoaded =>
        /\ OutsideTable(call.a.date_col) => FailsColumnNotFound(call.a.date_col)
        /\ (~OutsideTable(call.a.date_col) /\ OutsideTable(call.a.value_col))
                => FailsColumnNotFound(call.a.value_col)

\* C5's case: both selectors outside the table, one a position and one a name.
C5_Witness ==
    /\ TableLoaded
    /\ call.a.date_col = IntSel(2) /\ call.a.value_col = StrSel("valor")
    /\ raised.type = "KeyError" /\ raised.col = IntSel(2) /\ Len(raised.columns) = 2

(***************************************************************************)
(* Properties of the preparation functions.                                *)
(***************************************************************************)
\* C3: difference_series with order=0 returns a series equal to its input.
C3_OrderZeroReturnsInput ==
    (call.op = "difference_series" /\ call.a.order_is_int /\ call.a.order = 0)
        => result.returned /\ result.ret = before

\* C8: difference_series(order=k, dropna=True) keeps every input timestamp but
\* the first k, so the result has max(n - k, 0) entries (stated for k >= 1).
C8_DropsOnlyLeadingEntries ==
    (call.op = "difference_series" /\ call.a.order_is_int /\ call.a.order >= 1 /\ call.a.dropna)
        => /\ result.returned
           /\ result.ret.index = SubSeq(before.index, call.a.order + 1, Len(before.index))

\* C6: boxcox_transform on a series with a non-missing value <= 0 fails with the
\* domain-violation ValueError for every lambda, given or not: the check comes
\* after the missing entries are dropped and before scipy is reached.
C6_NonPositiveIsDomainViolation ==
    (call.op = "boxcox_transform" /\ \E i \in 1..Size(before) : LeZero(before.values[i]))
        => /\ ~result.returned
           /\ raised.type = "ValueError"
           /\ raised.kind = "Box-Cox requires all values > 0"

\* C6's case: a series holding a missing entry and a zero, lambda to be estimated.
C6_Witness ==
    /\ call.op = "boxcox_transform" /\ call.a.lmbda = 0
    /\ \E i, j \in 1..Size(before) : IsNaN(before.values[i]) /\ before.values[j] = Num(0)
    /\ raised.type = "ValueError"

PrepOps == {"ensure_datetime_index", "fill_missing", "difference_series", "boxcox_transform"}

\* C7: a preparation function that raises leaves the series it was given as it
\* was (index, values, name) and returns no series.
C7_FailureLeavesInputUnchanged ==
    (call.op \in PrepOps /\ raised.type # "none")
        => serie = before /\ ~result.returned /\ result.ret = NoSeries

\* C7's case: ensure_datetime_index raising on a series whose index holds strings.
C7_Witness ==
    /\ call.op = "ensure_datetime_index" /\ raised.type # "none"
    /\ Size(before) > 1 /\ ~IsDatetimeIndex(before.index)
    /\ serie = before

SixMethods == {"ffill", "bfill", "mean", "median", "zero", "value"}

\* C9: fill_missing with method="value" and no value fails with the
\* missing-configuration error, with a method outside the six with the
\* unsupported-method error, and otherwise applies the one strategy named.
C9_FillDispatch ==
    call.op = "fill_missing" =>
        /\ (call.a.method = "value" /\ ~call.a.has_value)
                => ~result.returned /\ raised.type = "ValueError" /\ raised.kind = "method='value' needs 'value'"
        /\ call.a.method \notin SixMethods
                => ~result.returned /\ raised.type = "ValueError" /\ raised.kind = "unsupported fill method"
        /\ call.a.method = "ffill" => result.returned /\ result.ret = Ffill(before)
        /\ call.a.method = "bfill" => result.returned /\ result.ret = Bfill(before)
        /\ call.a.method = "mean" => result.returned /\ result.ret = FillNa(before, Mean(before))
        /\ call.a.method = "median" => result.returned /\ result.ret = FillNa(before, Median(before))
        /\ call.a.method = "zero" => result.returned /\ result.ret = FillNa(before, Num(0))
        /\ (call.a.method = "value" /\ call.a.has_value)
                => result.returned /\ result.ret = FillNa(before, call.a.value)

\* C9's case: method="value" without a value, on a series with a missing entry.
C9_Witness ==
    /\ call.op = "fill_missing" /\ call.a.method = "value" /\ ~call.a.has_value
    /\ \E i \in 1..Size(before) : IsNaN(before.values[i])
    /\ raised.type = "ValueError" /\ ~result.returned

\* The spec's end-to-end file: 2023-01-01,100 / 2023-01-02, / 2023-01-03,120.
ExampleFile ==
    CsvFile(FALSE, << <<"2023-01-01", "100">>, <<"2023-01-02", "">>, <<"2023-01-03", "120">> >>)

\* The nearest earlier position of vals holding a value, 0 when there is none.
LastKnown(vals, i) ==
    LET known == {j \in 1..(i - 1) : ~IsNaN(vals[j])}
    IN  IF known = {} THEN 0 ELSE SetMax(known)

\* C10: ffill keeps the timestamps and the non-missing entries, and gives a
\* missing entry the nearest earlier non-missing value (leaving it missing when
\* there is none); the example file loaded with dropna=False has 3 entries, the
\* middle one missing, and fills to [100, 100, 120].
C10_ForwardFill ==
    /\ (call.op = "fill_missing" /\ call.a.method = "ffill")
        => /\ result.returned
           /\ result.ret.index = before.index
           /\ Len(result.ret.values) = Len(before.values)
           /\ \A i \in 1..Size(before) :
                result.ret.values[i] =
                    IF ~IsNaN(before.values[i]) THEN before.values[i]
                    ELSE IF LastKnown(before.values, i) = 0 THEN NaN
                    ELSE before.values[LastKnown(before.values, i)]
           /\ (file = ExampleFile /\ Size(before) = 3) => result.ret.values = <<Num(100), Num(100), Num(120)>>
    /\ (call.op = "load_timeseries" /\ file = ExampleFile /\ ~call.a.dropna)
        => /\ result.returned
           /\ Size(result.ret) = 3
           /\ result.ret.values = <<Num(100), NaN, Num(120)>>

\* C10's case: the example file, loaded whole, forward-filled.
C10_Witness ==
    /\ file = ExampleFile
    /\ call.op = "fill_missing" /\ call.a.method = "ffill"
    /\ before.values = <<Num(100), NaN, Num(120)>>
    /\ result.ret.values = <<Num(100), Num(100), Num(120)>>

====
